---- MODULE Spec2Model ----
(***************************************************************************)
(* The clustering tutorial notebook (hello-clustering.ipynb): a document   *)
(* collection is loaded from a JSON file, projected to texts and labels,   *)
(* embedded, clustered, reduced to 2D, assembled into a table (prepare2d)  *)
(* and rendered.                                                           *)
(*                                                                         *)
(* Two specifications:                                                     *)
(*   Spec      the notebook run top to bottom, one cell after the other,   *)
(*             stopping at the first cell that raises;                     *)
(*   SpecCalls single calls of the notebook's functions ignite_dataset and *)
(*             prepare2d on arbitrary (bounded) arguments.                 *)
(*                                                                         *)
(* Python values are tagged records ([type |-> ...]); a name that is not   *)
(* bound in the kernel is Undefined.  The outcome of a call is either      *)
(* Return(v) or Raise(e).                                                  *)
(***************************************************************************)
EXTENDS Integers, Sequences, FiniteSets, TLC

VARIABLES
    pc,             \* the cell / statement the run is at
    cuda_available, \* what torch.cuda.is_available() answers
    has_mps,        \* what torch.has_mps answers
    file,           \* the data file the loader opens
    docs,           \* notebook globals, in the order they are bound
    documents,
    labels,
    device,
    embeddings,
    topics,
    points,
    pl_view,
    chart,
    err,            \* the exception that reached the top level, if any
    started,        \* history: the stages started so far, in order
    call,           \* SpecCalls: the function called and its arguments
    result,         \* SpecCalls: the outcome of the call
    embeddingsAlt,  \* SpecCalls: a second binding of the global embeddings
    resultAlt       \* SpecCalls: the outcome of the same call under it

vars == <<pc, cuda_available, has_mps, file, docs, documents, labels, device,
          embeddings, topics, points, pl_view, chart, err, started,
          call, result, embeddingsAlt, resultAlt>>

(***************************************************************************)
(* Bounds                                                                  *)
(***************************************************************************)
\* longest document collection in the data file
MaxDocs == 2
\* longest argument sequence / most rows of a points array in a single call
MaxLen == 2

(***************************************************************************)
(* Values                                                                  *)
(***************************************************************************)
Undefined == [type |-> "undefined"]
NoError == [kind |-> "none"]
NotCalled == [kind |-> "notcalled"]
NoCall == [fn |-> "none"]
None == [type |-> "None"]

Return(v) == [kind |-> "return", value |-> v]
Raise(e) == [kind |-> "raise", error |-> e]
RaiseMsg(e, m) == [kind |-> "raise", error |-> e, message |-> m]

Str(s) == [type |-> "str", s |-> s]
List(items) == [type |-> "list", items |-> items]

Range(f) == {f[i] : i \in DOMAIN f}
SeqUpTo(S, n) == UNION {[1..k -> S] : k \in 0..n}
Min(S) == CHOOSE m \in S : \A k \in S : m <= k

Contents == {"a", "b"}
Titles == {"s", "t"}
DocFields == {"content", "title"}
\* a Document: a JSON object with any subset of the fields content and title
Documents ==
    UNION {{d \in [F -> Contents \cup Titles] :
               /\ "content" \in F => d["content"] \in Contents
               /\ "title" \in F => d["title"] \in Titles}
           : F \in SUBSET DocFields}

Array(items) == [type |-> "array", items |-> items]
Object(members) == [type |-> "object", members |-> members]

Keys == {"", "data"}
MemberValues == {Array(<<>>), Array(<<[f \in DocFields |-> IF f = "content" THEN "a" ELSE "s"]>>)}
Objects == UNION {{Object(m) : m \in [K -> MemberValues]} : K \in SUBSET Keys}
Arrays(n) == {Array(s) : s \in SeqUpTo(Documents, n)}

Missing == [type |-> "missing"]
Invalid == [type |-> "invalid"]

ColCounts == {1, 2, 3}
\* the rows a points array with c columns is filled from
RowsOf(c) == IF c = 2 THEN {<<0, 1>>, <<1, 0>>} ELSE {[j \in 1..c |-> j - 1]}
NdArray(rows, cols, data) == [type |-> "ndarray", rows |-> rows, cols |-> cols, data |-> data]
NdArrays(n, C) ==
    UNION {UNION {{NdArray(k, c, d) : d \in [1..k -> RowsOf(c)]} : k \in 0..n} : c \in C}
TopicIds == {0, 1}

(***************************************************************************)
(* ignite_dataset                                                          *)
(***************************************************************************)
\* variant: "if mask is not None" in place of "if mask"
Truthy_NotNone(v) == v # None

\* Python truth value of a mask argument: None and "" are false
Truthy(v) == ~(v = None \/ v = Str(""))

\* docs[mask] on the parsed JSON value
Subscript(parsed, mask) ==
    IF parsed.type = "object"
    THEN IF mask.s \in DOMAIN parsed.members
         THEN Return(parsed.members[mask.s])
         ELSE Raise("KeyError")
    ELSE Raise("TypeError")

ignite_dataset(where, mask) ==
    IF where.type = "missing" THEN Raise("FileNotFoundError")
    ELSE IF where.type = "invalid" THEN Raise("JSONDecodeError")
    ELSE IF Truthy(mask) THEN Subscript(where, mask)
    ELSE Return(where)

(***************************************************************************)
(* The extraction cell: [di[field] for di in docs]                         *)
(***************************************************************************)
\* variant: di.get(field) in place of di[field]
ListComp_Get(ds, field) ==
    IF ds.type = "array"
    THEN Return(List([i \in DOMAIN ds.items |->
                        IF field \in DOMAIN ds.items[i] THEN ds.items[i][field] ELSE "None"]))
    ELSE IF DOMAIN ds.members = {}
         THEN Return(List(<<>>))
         ELSE Raise("TypeError")

ListComp(ds, field) ==
    IF ds.type = "array"
    THEN IF \A i \in DOMAIN ds.items : field \in DOMAIN ds.items[i]
         THEN Return(List([i \in DOMAIN ds.items |-> ds.items[i][field]]))
         ELSE Raise("KeyError")
    ELSE \* a dict iterates over its keys, and a str is not indexed by a str
         IF DOMAIN ds.members = {}
         THEN Return(List(<<>>))
         ELSE Raise("TypeError")

(***************************************************************************)
(* maybe_cuda_or_mps                                                       *)
(***************************************************************************)
\* variant: the two probes tested in the other order
maybe_cuda_or_mps_MpsFirst(cuda, mps) ==
    IF mps THEN "mps"
    ELSE IF cuda THEN "cuda:0"
    ELSE "cpu"

maybe_cuda_or_mps(cuda, mps) ==
    IF cuda THEN "cuda:0"
    ELSE IF mps THEN "mps"
    ELSE "cpu"

(***************************************************************************)
(* prepare2d                                                               *)
(***************************************************************************)
ShapeMessage(d) == [text |-> "Embeddings shape mismatch Exptected 2D, got", dim |-> d]

\* the f-string of the assert reads the GLOBAL embeddings, not the argument
AssertMessage(g) ==
    IF g.type = "undefined" THEN Raise("NameError")
    ELSE IF g.type = "ndarray" THEN RaiseMsg("AssertionError", ShapeMessage(g.cols))
    ELSE Raise("AttributeError")

\* variant: reduced_embeddings[:, 0] for both coordinates
Column_First(arr, j) == [i \in 1..arr.rows |-> arr.data[i][1]]

\* reduced_embeddings[:, j]
Column(arr, j) == [i \in 1..arr.rows |-> arr.data[i][j + 1]]

\* zip(a, b, c, d, e, strict=False): stops at the shortest argument
Zip5(a, b, c, d, e) ==
    [i \in 1..Min({Len(a), Len(b), Len(c), Len(d), Len(e)}) |->
        <<a[i], b[i], c[i], d[i], e[i]>>]

GenericNames == <<"column_0", "column_1", "column_2", "column_3", "column_4">>

\* pl.from_dicts on an iterator of tuples: one row per tuple, the columns
\* named column_0.. after the width of the rows read; no row, no column
from_dicts(rows) ==
    [type |-> "DataFrame",
     columns |-> IF rows = <<>> THEN <<>> ELSE SubSeq(GenericNames, 1, Len(rows[1])),
     rows |-> rows]

COLS_MAPPING ==
    [c \in Range(GenericNames) |->
        CASE c = "column_0" -> "text"
          [] c = "column_1" -> "topic"
          [] c = "column_2" -> "label"
          [] c = "column_3" -> "x"
          [] c = "column_4" -> "y"]

\* DataFrame.rename: every column to rename has to exist
rename(frame, mapping) ==
    IF \E c \in DOMAIN mapping : c \notin Range(frame.columns)
    THEN Raise("ColumnNotFoundError")
    ELSE Return([frame EXCEPT !.columns =
                    [j \in DOMAIN @ |-> IF @[j] \in DOMAIN mapping THEN mapping[@[j]] ELSE @[j]]])

\* variant: zip(..., strict=True)
prepare2d_Strict(docs_, topics_, labels_, reduced_embeddings, g) ==
    IF reduced_embeddings.cols # 2
    THEN AssertMessage(g)
    ELSE IF Cardinality({Len(docs_), Len(topics_), Len(labels_), reduced_embeddings.rows}) > 1
         THEN Raise("ValueError")
         ELSE rename(from_dicts(Zip5(docs_, topics_, labels_,
                                     Column(reduced_embeddings, 0),
                                     Column(reduced_embeddings, 1))),
                     COLS_MAPPING)

prepare2d(docs_, topics_, labels_, reduced_embeddings, g) ==
    IF reduced_embeddings.cols # 2
    THEN AssertMessage(g)
    ELSE rename(from_dicts(Zip5(docs_, topics_, labels_,
                                Column(reduced_embeddings, 0),
                                Column(reduced_embeddings, 1))),
                COLS_MAPPING)

(***************************************************************************)
(* The justatom components the notebook calls (their code is not part of   *)
(* the notebook): the outcomes their contracts allow.                      *)
(***************************************************************************)
SetupOutcomes == {Return(None), Raise("ModelLoadError")}

EncodeOutcomes(texts) ==
    {Return(List([i \in DOMAIN texts |-> "vec"])), Raise("InferenceError")}

ClusterOutcomes(texts) ==
    {Raise("ClusteringError")} \cup
    (IF texts = <<>> THEN {} ELSE {Return(List(t)) : t \in [DOMAIN texts -> TopicIds]})

ReduceOutcomes(vectors) ==
    {Raise("ReductionError")} \cup
    (IF vectors = <<>> THEN {}
     ELSE {Return(a) : a \in {b \in NdArrays(Len(vectors), {2, 3}) : b.rows = Len(vectors)}})

\* label_to_view="Вселенная", transliterated
LABEL_TO_VIEW == "Vselennaya"

view(table, label_to_view) ==
    IF table.rows = <<>>
    THEN Raise("EmptyTableError")
    ELSE Return([type |-> "Chart",
                 points |-> [i \in DOMAIN table.rows |-> <<table.rows[i][4], table.rows[i][5]>>],
                 highlight |-> {i \in DOMAIN table.rows : table.rows[i][3] = label_to_view}])

(***************************************************************************)
(* The notebook run: one action per cell (the encode / fit_transform cell  *)
(* is two statements, one action each).  A cell that raises ends the run.  *)
(***************************************************************************)
callVars == <<call, result, embeddingsAlt, resultAlt>>
probeVars == <<cuda_available, has_mps, file>>

Files == {Missing, Invalid} \cup Arrays(MaxDocs) \cup Objects

Init ==
    /\ pc = "load"
    /\ cuda_available \in BOOLEAN
    /\ has_mps \in BOOLEAN
    /\ file \in Files
    /\ docs = Undefined
    /\ documents = Undefined
    /\ labels = Undefined
    /\ device = Undefined
    /\ embeddings = Undefined
    /\ topics = Undefined
    /\ points = Undefined
    /\ pl_view = Undefined
    /\ chart = Undefined
    /\ err = NoError
    /\ started = <<>>
    /\ call = NoCall
    /\ result = NotCalled
    /\ embeddingsAlt = Undefined
    /\ resultAlt = NotCalled

\* variant: the failing cell is run again
Halt_Retry(outcome) ==
    /\ pc' = pc
    /\ err' = outcome

\* an exception reaches the top level: the run stops at this cell
Halt(outcome) ==
    /\ pc' = "failed"
    /\ err' = outcome

\* docs = ignite_dataset(where=...)
LoadCell ==
    /\ pc = "load"
    /\ started' = Append(started, "load")
    /\ LET r == ignite_dataset(file, None) IN
         IF r.kind = "return"
         THEN /\ docs' = r.value
              /\ pc' = "extract"
              /\ err' = err
         ELSE /\ Halt(r)
              /\ docs' = docs
    /\ UNCHANGED <<documents, labels, device, embeddings, topics, points, pl_view, chart>>
    /\ UNCHANGED <<probeVars, callVars>>

\* documents = [di["content"] for di in docs]; labels = [di["title"] for di in docs]
ExtractCell ==
    /\ pc = "extract"
    /\ started' = Append(started, "extract")
    /\ LET r1 == ListComp(docs, "content")
           r2 == ListComp(docs, "title") IN
         IF r1.kind = "raise"
         THEN /\ Halt(r1)
              /\ UNCHANGED <<documents, labels>>
         ELSE /\ documents' = r1.value
              /\ IF r2.kind = "raise"
                 THEN /\ Halt(r2)
                      /\ labels' = labels
                 ELSE /\ labels' = r2.value
                      /\ pc' = "device"
                      /\ err' = err
    /\ UNCHANGED <<docs, device, embeddings, topics, points, pl_view, chart>>
    /\ UNCHANGED <<probeVars, callVars>>

\* device = maybe_cuda_or_mps()
DeviceCell ==
    /\ pc = "device"
    /\ started' = Append(started, "device")
    /\ device' = Str(maybe_cuda_or_mps(cuda_available, has_mps))
    /\ pc' = "setup"
    /\ UNCHANGED <<docs, documents, labels, embeddings, topics, points, pl_view, chart, err>>
    /\ UNCHANGED <<probeVars, callVars>>

\* tokenizer, processor, lm_model, embedder, backend_wrapper, bt_runner
SetupCells ==
    /\ pc = "setup"
    /\ started' = Append(started, "setup")
    /\ \E r \in SetupOutcomes :
         IF r.kind = "return"
         THEN pc' = "encode" /\ err' = err
         ELSE Halt(r)
    /\ UNCHANGED <<docs, documents, labels, device, embeddings, topics, points, pl_view, chart>>
    /\ UNCHANGED <<probeVars, callVars>>

\* variant: the batches are not drained before the next statement runs
EncodeStep_Partial ==
    /\ pc = "encode"
    /\ started' = Append(started, "encode")
    /\ \E r \in EncodeOutcomes(documents.items) :
         IF r.kind = "return"
         THEN /\ embeddings' = List(SubSeq(r.value.items, 1, Len(r.value.items) - 1))
              /\ pc' = "cluster"
              /\ err' = err
         ELSE /\ Halt(r)
              /\ embeddings' = embeddings
    /\ UNCHANGED <<docs, documents, labels, device, topics, points, pl_view, chart>>
    /\ UNCHANGED <<probeVars, callVars>>

\* embeddings = list(chain.from_iterable(embedder.encode(documents, ...)))
EncodeStep ==
    /\ pc = "encode"
    /\ started' = Append(started, "encode")
    /\ \E r \in EncodeOutcomes(documents.items) :
         IF r.kind = "return"
         THEN /\ embeddings' = r.value
              /\ pc' = "cluster"
              /\ err' = err
         ELSE /\ Halt(r)
              /\ embeddings' = embeddings
    /\ UNCHANGED <<docs, documents, labels, device, topics, points, pl_view, chart>>
    /\ UNCHANGED <<probeVars, callVars>>

\* topics, probs = bt_runner.fit_transform(docs=documents)
ClusterStep ==
    /\ pc = "cluster"
    /\ started' = Append(started, "cluster")
    /\ \E r \in ClusterOutcomes(documents.items) :
         IF r.kind = "return"
         THEN /\ topics' = r.value
              /\ pc' = "reduce"
              /\ err' = err
         ELSE /\ Halt(r)
              /\ topics' = topics
    /\ UNCHANGED <<docs, documents, labels, device, embeddings, points, pl_view, chart>>
    /\ UNCHANGED <<probeVars, callVars>>

\* reducer = IUMAPDimReducer(...); points = reducer.fit_transform(embeddings)
ReduceCell ==
    /\ pc = "reduce"
    /\ started' = Append(started, "reduce")
    /\ \E r \in ReduceOutcomes(embeddings.items) :
         IF r.kind = "return"
         THEN /\ points' = r.value
              /\ pc' = "build"
              /\ err' = err
         ELSE /\ Halt(r)
              /\ points' = points
    /\ UNCHANGED <<docs, documents, labels, device, embeddings, topics, pl_view, chart>>
    /\ UNCHANGED <<probeVars, callVars>>

\* pl_view = prepare2d(docs=documents, topics=topics, labels=labels, reduced_embeddings=points)
BuildCell ==
    /\ pc = "build"
    /\ started' = Append(started, "build")
    /\ LET r == prepare2d(documents.items, topics.items, labels.items, points, embeddings) IN
         IF r.kind = "return"
         THEN /\ pl_view' = r.value
              /\ pc' = "chart"
              /\ err' = err
         ELSE /\ Halt(r)
              /\ pl_view' = pl_view
    /\ UNCHANGED <<docs, documents, labels, device, embeddings, topics, points, chart>>
    /\ UNCHANGED <<probeVars, callVars>>

\* chart = PlotlyScatterChart().view(pl_view, label_to_view=...)
ChartCell ==
    /\ pc = "chart"
    /\ started' = Append(started, "chart")
    /\ LET r == view(pl_view, LABEL_TO_VIEW) IN
         IF r.kind = "return"
         THEN /\ chart' = r.value
              /\ pc' = "done"
              /\ err' = err
         ELSE /\ Halt(r)
              /\ chart' = chart
    /\ UNCHANGED <<docs, documents, labels, device, embeddings, topics, points, pl_view>>
    /\ UNCHANGED <<probeVars, callVars>>

Next ==
    \/ LoadCell
    \/ ExtractCell
    \/ DeviceCell
    \/ SetupCells
    \/ EncodeStep
    \/ ClusterStep
    \/ ReduceCell
    \/ BuildCell
    \/ ChartCell

Spec == Init /\ [][Next]_vars

(***************************************************************************)
(* Single calls of the notebook's functions on arbitrary arguments.        *)
(* prepare2d reads the global embeddings, so a call of it is evaluated     *)
(* under two bindings of that global (embeddings and embeddingsAlt) at     *)
(* once: result and resultAlt are the outcomes of the same call in two     *)
(* kernels that differ in that global only.                                *)
(***************************************************************************)
Masks == {None, Str(""), Str("data"), Str("other")}

\* what the kernel may hold under the name embeddings when prepare2d runs:
\* nothing, the list the encode cell binds, or a 2-dimensional array
EmbeddingGlobals == {Undefined, List(<<"vec">>), NdArray(1, 3, <<<<0, 1, 2>>>>)}

IgniteCalls == {[fn |-> "ignite_dataset", mask |-> m] : m \in Masks}

Prepare2dCalls ==
    {[fn |-> "prepare2d", docs |-> d, topics |-> t, labels |-> l, reduced_embeddings |-> p] :
        d \in SeqUpTo(Contents, MaxLen), t \in SeqUpTo(TopicIds, MaxLen),
        l \in SeqUpTo(Titles, MaxLen), p \in NdArrays(MaxLen, ColCounts)}

InitCalls ==
    /\ pc = "call"
    /\ cuda_available = FALSE
    /\ has_mps = FALSE
    /\ docs = Undefined
    /\ documents = Undefined
    /\ labels = Undefined
    /\ device = Undefined
    /\ topics = Undefined
    /\ points = Undefined
    /\ pl_view = Undefined
    /\ chart = Undefined
    /\ err = NoError
    /\ started = <<>>
    /\ result = NotCalled
    /\ resultAlt = NotCalled
    /\ \/ /\ call \in IgniteCalls
          /\ file \in Files
          /\ embeddings = Undefined
          /\ embeddingsAlt = Undefined
       \/ /\ call \in Prepare2dCalls
          /\ file = Missing
          /\ embeddings \in EmbeddingGlobals
          /\ embeddingsAlt \in EmbeddingGlobals

CallIgniteDataset ==
    /\ pc = "call"
    /\ call.fn = "ignite_dataset"
    /\ result' = ignite_dataset(file, call.mask)
    /\ pc' = "returned"
    /\ UNCHANGED <<cuda_available, has_mps, file, docs, documents, labels, device, embeddings,
                   topics, points, pl_view, chart, err, started, call, embeddingsAlt, resultAlt>>

CallPrepare2d ==
    /\ pc = "call"
    /\ call.fn = "prepare2d"
    /\ result' = prepare2d(call.docs, call.topics, call.labels, call.reduced_embeddings,
                           embeddings)
    /\ resultAlt' = prepare2d(call.docs, call.topics, call.labels, call.reduced_embeddings,
                              embeddingsAlt)
    /\ pc' = "returned"
    /\ UNCHANGED <<cuda_available, has_mps, file, docs, documents, labels, device, embeddings,
                   topics, points, pl_view, chart, err, started, call, embeddingsAlt>>

NextCalls ==
    \/ CallIgniteDataset
    \/ CallPrepare2d

SpecCalls == InitCalls /\ [][NextCalls]_vars

(***************************************************************************)
(* Properties                                                              *)
(***************************************************************************)
Prepare2dReturned == pc = "returned" /\ call.fn = "prepare2d"
IgniteReturned == pc = "returned" /\ call.fn = "ignite_dataset"

\* the lengths of docs, topics, labels and the row count of the points array
ArgLens ==
    {Len(call.docs), Len(call.topics), Len(call.labels), call.reduced_embeddings.rows}

SemanticNames == <<"text", "topic", "label", "x", "y">>

\* row i of the table as the i-th elements of the four arguments
ExpectedRow(i) ==
    <<call.docs[i], call.topics[i], call.labels[i],
      call.reduced_embeddings.data[i][1], call.reduced_embeddings.data[i][2]>>

ExpectedTable(n) ==
    [type |-> "DataFrame", columns |-> SemanticNames, rows |-> [i \in 1..n |-> ExpectedRow(i)]]

\* C1: prepare2d ends in an error, returning no table, whenever the lengths
\* of docs, topics, labels and the row count of the 2-column points array
\* are not all equal.
C1_RejectsUnequalLengths ==
    (Prepare2dReturned /\ call.reduced_embeddings.cols = 2 /\ Cardinality(ArgLens) > 1)
        => result.kind = "raise"

\* C2: whenever the points array does not have 2 columns, prepare2d fails
\* with the AssertionError that carries the shape-mismatch message, whatever
\* the other arguments and the notebook's variables are.
C2_AssertionFires ==
    (Prepare2dReturned /\ call.reduced_embeddings.cols # 2)
        => /\ result.kind = "raise"
           /\ result.error = "AssertionError"
           /\ "message" \in DOMAIN result

\* C3 as stated: for every n, n documents, n topics, n labels and an n-by-2
\* points array give the table of n rows (docs[i], topics[i], labels[i],
\* points[i][0], points[i][1]) under the columns text, topic, label, x, y.
C3_TableOfEveryLength ==
    (Prepare2dReturned /\ call.reduced_embeddings.cols = 2 /\ Cardinality(ArgLens) = 1)
        => result = Return(ExpectedTable(Len(call.docs)))

\* C3 amended: the same for every n >= 1 (with n = 0 no column is inferred
\* and the renaming fails).
C3_TableOfPositiveLength ==
    (/\ Prepare2dReturned
     /\ call.reduced_embeddings.cols = 2
     /\ Cardinality(ArgLens) = 1
     /\ Len(call.docs) >= 1)
        => result = Return(ExpectedTable(Len(call.docs)))

C3_Witness ==
    /\ Prepare2dReturned
    /\ call.reduced_embeddings.cols = 2
    /\ Cardinality(ArgLens) = 1
    /\ Len(call.docs) >= 2
    /\ call.docs[1] # call.docs[2]
    /\ call.reduced_embeddings.data[1] # call.reduced_embeddings.data[2]
    /\ result.kind = "return"
    /\ Len(result.value.rows) = Len(call.docs)

KeysOf(parsed) == IF parsed.type = "object" THEN DOMAIN parsed.members ELSE {}
Parsed == file.type \in {"array", "object"}

\* C4 as stated: for every parsed structure and every mask provided (the
\* empty string included) ignite_dataset returns the value at that top-level
\* key, and fails with KeyError when the mask is not a key; with no mask it
\* returns the parsed structure.
C4_EveryMaskIsLookedUp ==
    (IgniteReturned /\ Parsed)
        => IF call.mask = None THEN result = Return(file)
           ELSE IF call.mask.s \in KeysOf(file)
                THEN result = Return(file.members[call.mask.s])
                ELSE result = Raise("KeyError")

\* C4 amended: a non-empty mask on a parsed JSON object returns the value at
\* that key, or fails with KeyError when it is not a key; a non-empty mask on
\* a parsed JSON array fails with TypeError; with no mask or the empty string
\* as mask the parsed structure itself is returned.
C4_NonEmptyMaskIsLookedUp ==
    (IgniteReturned /\ Parsed)
        => IF call.mask = None \/ call.mask = Str("") THEN result = Return(file)
           ELSE IF file.type = "object"
                THEN IF call.mask.s \in DOMAIN file.members
                     THEN result = Return(file.members[call.mask.s])
                     ELSE result = Raise("KeyError")
                ELSE result = Raise("TypeError")

C4_Witness ==
    /\ IgniteReturned
    /\ file.type = "object"
    /\ DOMAIN file.members = Keys
    /\ file.members[""] # file.members["data"]
    /\ call.mask = Str("data")
    /\ result = Return(file.members["data"])

Extracted == "extract" \in Range(started)
HasField(field) == \A i \in DOMAIN docs.items : field \in DOMAIN docs.items[i]
Projection(field) == List([i \in DOMAIN docs.items |-> docs.items[i][field]])

\* C5 as stated: a collection whose documents all have content and title is
\* extracted to texts[i] = content of document i and labels[i] = title of
\* document i; if a document lacks a field the extraction fails with
\* SchemaError and produces no sequence.
C5_ExtractOrSchemaError ==
    (Extracted /\ docs.type = "array")
        => IF HasField("content") /\ HasField("title")
           THEN documents = Projection("content") /\ labels = Projection("title")
           ELSE err = Raise("SchemaError") /\ documents = Undefined /\ labels = Undefined

\* C5 amended: the same, but the failure is a KeyError, labels is never
\* bound, and texts stays unbound exactly when a document lacks content.
C5_ExtractOrKeyError ==
    (Extracted /\ docs.type = "array")
        => IF HasField("content") /\ HasField("title")
           THEN documents = Projection("content") /\ labels = Projection("title")
           ELSE /\ err = Raise("KeyError")
                /\ labels = Undefined
                /\ (documents = Undefined <=> ~HasField("content"))
                /\ (documents # Undefined => documents = Projection("content"))

C5_Witness ==
    /\ pc = "device"
    /\ docs.type = "array"
    /\ Len(docs.items) >= 2
    /\ docs.items[1]["content"] # docs.items[2]["content"]
    /\ docs.items[1]["title"] # docs.items[2]["title"]
    /\ Len(documents.items) = Len(docs.items)
    /\ Len(labels.items) = Len(docs.items)

\* C6: the device is "cuda:0" whenever cuda is available, whatever the mps
\* probe says; "mps" exactly when cuda is unavailable and mps is available;
\* "cpu" exactly when neither is available.  The tag is thus a function of
\* the two probes.
C6_DevicePriority ==
    device # Undefined
        => /\ cuda_available => device = Str("cuda:0")
           /\ device = Str("mps") <=> (~cuda_available /\ has_mps)
           /\ device = Str("cpu") <=> (~cuda_available /\ ~has_mps)

C6_Witness == device = Str("cuda:0") /\ cuda_available /\ has_mps

StageOrder == <<"load", "extract", "device", "encode", "cluster", "reduce", "build", "chart">>
IsStage(s) == s \in Range(StageOrder)
IsPrefix(s, t) == Len(s) <= Len(t) /\ SubSeq(t, 1, Len(s)) = s
Complete(v) == v # Undefined /\ Len(v.items) = Len(documents.items)

\* C7: the stages start one after the other in the order Loader, Extractor,
\* Device Selector, encode, clustering, reducer, builder, renderer; the
\* reducer starts only once the embedding list is complete, the builder only
\* once texts, labels, topics and points are all complete.
C7_StagesInOrder ==
    /\ IsPrefix(SelectSeq(started, IsStage), StageOrder)
    /\ "reduce" \in Range(started) => documents # Undefined /\ Complete(embeddings)
    /\ "build" \in Range(started)
          => /\ documents # Undefined
             /\ Complete(labels)
             /\ Complete(topics)
             /\ points # Undefined /\ points.rows = Len(documents.items)

C7_Witness ==
    /\ pc = "done"
    /\ SelectSeq(started, IsStage) = StageOrder
    /\ Len(documents.items) >= 2

\* the errors each stage raises
ErrorsOf(stage) ==
    CASE stage = "load" -> {"FileNotFoundError", "JSONDecodeError"}
      [] stage = "extract" -> {"KeyError", "TypeError"}
      [] stage = "setup" -> {"ModelLoadError"}
      [] stage = "encode" -> {"InferenceError"}
      [] stage = "cluster" -> {"ClusteringError"}
      [] stage = "reduce" -> {"ReductionError"}
      [] stage = "build" -> {"AssertionError", "AttributeError", "NameError", "ColumnNotFoundError"}
      [] stage = "chart" -> {"EmptyTableError"}
      [] OTHER -> {}

C9_TruncatesToShortest ==
    (Prepare2dReturned /\ call.reduced_embeddings.cols = 2)
        => /\ result.kind = "return"
           /\ Len(result.value.rows) = Min(ArgLens)
           /\ \A i \in 1..Min(ArgLens) : result.value.rows[i] = ExpectedRow(i)

\* C9 amended: the same whenever that minimum is at least 1.
C9_TruncatesToShortestPositive ==
    (Prepare2dReturned /\ call.reduced_embeddings.cols = 2 /\ Min(ArgLens) >= 1)
        => /\ result.kind = "return"
           /\ Len(result.value.rows) = Min(ArgLens)
           /\ \A i \in 1..Min(ArgLens) : result.value.rows[i] = ExpectedRow(i)

C9_Witness ==
    /\ Prepare2dReturned
    /\ call.reduced_embeddings.cols = 2
    /\ Cardinality(ArgLens) > 1
    /\ Min(ArgLens) >= 1
    /\ result.kind = "return"
    /\ Len(result.value.rows) < Len(call.docs)

\* C10: the outcome of prepare2d depends on its four arguments only: the
\* same call gives the same outcome under any two bindings of the global
\* embeddings.
C10_OutcomeFromArgumentsOnly ==
    Prepare2dReturned => result = resultAlt

====
